---- MODULE Spec2Model ----
(***************************************************************************)
(* Model of the n-body simulation of src/main.rs: the Vector2f algebra,    *)
(* Particle::compute_force, App::update, App::render and the construction  *)
(* and event loop of main.                                                 *)
(*                                                                         *)
(* Numbers.  The program computes in f32.  A value is modelled as a binary *)
(* floating-point number [m |-> mantissa, e |-> exponent] of value m * 2^e *)
(* with the exponent range of f32 and a significand of SigBits bits        *)
(* (f32 has 24), rounded to nearest, ties to even, with gradual underflow, *)
(* overflow to infinity and NaN, as IEEE 754 prescribes.  The sign of a    *)
(* zero is not kept: the program never divides by a computed zero, and     *)
(* f32's == treats both zeros as equal.                                    *)
(***************************************************************************)
EXTENDS Integers, Sequences, FiniteSets, TLC

\* ------------------------------------------------------------------------
\* Bounds of the model
\* ------------------------------------------------------------------------
SigBits == 12
MaxParticles == 2
MaxUpdates == 2
RngBits == 3

\* ------------------------------------------------------------------------
\* f32
\* ------------------------------------------------------------------------
MaxExp == 127
MinExp == -126

\* 2^k for 0 <= k <= 30, and the number of bits of n for 0 <= n < 2^31
RECURSIVE Pow2Rec(_)
Pow2Rec(k) == IF k <= 0 THEN 1 ELSE 2 * Pow2Rec(k - 1)

Pow2Tab == [k \in 0 .. 30 |-> Pow2Rec(k)]

Pow2(k) == Pow2Tab[k]

RECURSIVE BitLenRec(_)
BitLenRec(n) == IF n = 0 THEN 0 ELSE 1 + BitLenRec(n \div 2)

BitLenTab == [n \in 0 .. 255 |-> BitLenRec(n)]

BitLen(n) ==
    IF n < 65536
    THEN (IF n < 256 THEN BitLenTab[n] ELSE 8 + BitLenTab[n \div 256])
    ELSE (IF n < 16777216 THEN 16 + BitLenTab[n \div 65536]
                          ELSE 24 + BitLenTab[n \div 16777216])

Abs(n) == IF n < 0 THEN -n ELSE n
Sgn(n) == IF n < 0 THEN -1 ELSE 1
Max(a, b) == IF a >= b THEN a ELSE b
Min(a, b) == IF a <= b THEN a ELSE b

\* exponent of the last place of the smallest normal number, and the
\* exponent field that marks infinities and NaN
LowExp == MinExp - (SigBits - 1)
TopExp == MaxExp - (SigBits - 1)
SpecialExp == MaxExp + 1

FZero == [m |-> 0, e |-> 0]
FInf(s) == [m |-> s, e |-> SpecialExp]
FNaN == [m |-> 0, e |-> SpecialExp]

IsNaN(a) == a.e = SpecialExp /\ a.m = 0
IsInf(a) == a.e = SpecialExp /\ a.m # 0
IsFinite(a) == a.e # SpecialExp
IsZero(a) == a.e # SpecialExp /\ a.m = 0

\* The f32 nearest to s * M * 2^E (s = 1 or -1, M >= 0): round to nearest,
\* ties to even; subnormal below 2^MinExp; infinite above the largest f32.
\* Pack: the result of mantissa m and exponent e, infinite if e is too large
Pack(s, m, e) ==
    IF m = 0 THEN FZero
    ELSE IF e > TopExp THEN FInf(s)
    ELSE [m |-> s * m, e |-> e]

\* a mantissa that rounding carried to 2^SigBits is renormalised
Carry(s, q, e) ==
    IF q = Pow2(SigBits) THEN Pack(s, Pow2(SigBits - 1), e + 1) ELSE Pack(s, q, e)

\* q with remainder r dropped: up if r is above half, or is half and q is odd
RoundUp(s, q, r, half, e) ==
    Carry(s, IF r > half \/ (r = half /\ q % 2 = 1) THEN q + 1 ELSE q, e)

\* shift: the number of low bits of M to drop (negative: bits to append)
RoundAt(s, M, E, shift) ==
    IF shift <= 0 THEN Pack(s, M * Pow2(-shift), E + shift)
    ELSE IF shift > BitLen(M) THEN FZero
    ELSE RoundUp(s, M \div Pow2(shift), M % Pow2(shift), Pow2(shift - 1), E + shift)

Round(s, M, E) ==
    IF M = 0 THEN FZero
    ELSE RoundAt(s, M, E, Max(BitLen(M) - SigBits, LowExp - E))

\* the f32 nearest to n * 2^e, n an integer of either sign
RoundInt(n, e) == Round(Sgn(n), Abs(n), e)

\* integer to f32 (`WIDTH as f32`) and f32 literals
FromInt(n) == RoundInt(n, 0)

\* f64 to f32 (`args.dt as f32`): an f64 is a pair m * 2^e with a wider
\* significand; the cast rounds it to the f32 significand
AsF32(d) == RoundInt(d.m, d.e)

\* f32 to f64 (`.into()`): exact, every f32 is an f64
IntoF64(a) == a

FNeg(a) == [m |-> -a.m, e |-> a.e]

\* hi.e >= lo.e: beyond SigBits + 2 places lo is below a quarter of the last
\* place of hi and the sum rounds to hi; otherwise the sum is exact before
\* rounding
FAddAligned(hi, lo) ==
    IF hi.e - lo.e > SigBits + 2 THEN hi
    ELSE RoundInt(hi.m * Pow2(hi.e - lo.e) + lo.m, lo.e)

FAdd(a, b) ==
    IF IsNaN(a) \/ IsNaN(b) THEN FNaN
    ELSE IF IsInf(a) THEN (IF IsInf(b) /\ b.m # a.m THEN FNaN ELSE a)
    ELSE IF IsInf(b) THEN b
    ELSE IF a.m = 0 THEN b
    ELSE IF b.m = 0 THEN a
    ELSE IF a.e >= b.e THEN FAddAligned(a, b) ELSE FAddAligned(b, a)

FSub(a, b) == FAdd(a, FNeg(b))

FMul(a, b) ==
    IF IsNaN(a) \/ IsNaN(b) THEN FNaN
    ELSE IF IsInf(a) \/ IsInf(b)
         THEN (IF a.m = 0 \/ b.m = 0 THEN FNaN ELSE FInf(Sgn(a.m) * Sgn(b.m)))
    ELSE Round(Sgn(a.m) * Sgn(b.m), Abs(a.m) * Abs(b.m), a.e + b.e)

\* n / d with the remainder kept as a sticky last bit
FDivQuot(s, n, d, e) ==
    Round(s, 2 * (n \div d) + (IF n % d = 0 THEN 0 ELSE 1), e)

\* the dividend is scaled by 2^k so that the quotient has SigBits + 2 bits
FDivScaled(a, b, k) ==
    FDivQuot(Sgn(a.m) * Sgn(b.m), Abs(a.m) * Pow2(k), Abs(b.m), a.e - b.e - k - 1)

FDiv(a, b) ==
    IF IsNaN(a) \/ IsNaN(b) THEN FNaN
    ELSE IF IsInf(a) THEN (IF IsInf(b) THEN FNaN ELSE FInf(Sgn(a.m) * Sgn(b.m)))
    ELSE IF IsInf(b) THEN FZero
    ELSE IF b.m = 0 THEN (IF a.m = 0 THEN FNaN ELSE FInf(Sgn(a.m)))
    ELSE IF a.m = 0 THEN FZero
    ELSE FDivScaled(a, b, 2 * SigBits + 2 - BitLen(Abs(a.m)))

\* largest r with r * r <= n, by Newton's iteration from x > sqrt(n)
RECURSIVE IsqrtFrom(_, _)
IsqrtStep(n, x, y) == IF y >= x THEN x ELSE IsqrtFrom(n, y)

IsqrtFrom(n, x) == IsqrtStep(n, x, (x + n \div x) \div 2)

Isqrt(n) == IsqrtFrom(n, Pow2((BitLen(n) + 1) \div 2))

\* the root r of n with a sticky last bit when r * r # n
FSqrtPack(n, r, e) == Round(1, 2 * r + (IF r * r = n THEN 0 ELSE 1), e)

\* the mantissa is scaled by 2^k, k making the exponent even and the root
\* SigBits + 2 bits long
FSqrtScaled(a, k) == FSqrtPack(a.m * Pow2(k), Isqrt(a.m * Pow2(k)), ((a.e - k) \div 2) - 1)

FSqrtEven(a, k0) == FSqrtScaled(a, k0 + ((a.e - k0) % 2))

FSqrt(a) ==
    IF IsNaN(a) THEN FNaN
    ELSE IF a.m < 0 THEN FNaN
    ELSE IF IsInf(a) THEN a
    ELSE IF a.m = 0 THEN FZero
    ELSE FSqrtEven(a, 2 * SigBits + 3 - BitLen(a.m))

\* comparisons of f32: false as soon as one side is NaN
FLt(a, b) == ~IsNaN(a) /\ ~IsNaN(b) /\ FSub(a, b).m < 0
FGt(a, b) == FLt(b, a)
FEq(a, b) == ~IsNaN(a) /\ ~IsNaN(b) /\ a = b

\* f32::max: the other operand when one is NaN
FMax(a, b) == IF IsNaN(a) THEN b ELSE IF IsNaN(b) THEN a ELSE IF FLt(a, b) THEN b ELSE a

\* f32::is_normal: neither zero, subnormal, infinite nor NaN
is_normal(a) == IsFinite(a) /\ Abs(a.m) >= Pow2(SigBits - 1)

\* ------------------------------------------------------------------------
\* Program constants
\* ------------------------------------------------------------------------
WALL_BOUNCYNESS == Round(1, 1, -2)
G_CONST == FromInt(1000)
PARTICLE_COUNT == 60
SIMULATION_ITERATIONS == 1
SIMULATION_SPEED == FromInt(1)
WIDTH == 1200
HEIGHT == 900

\* ------------------------------------------------------------------------
\* Vector2f
\* ------------------------------------------------------------------------
Vector2f(x, y) == [x |-> x, y |-> y]

new == Vector2f(FZero, FZero)

length(self) == FSqrt(FAdd(FMul(self.x, self.x), FMul(self.y, self.y)))

reset(self) == Vector2f(FZero, FZero)

add(self, other) == Vector2f(FAdd(self.x, other.x), FAdd(self.y, other.y))

sub(self, other) == Vector2f(FSub(self.x, other.x), FSub(self.y, other.y))

mul(self, v) == Vector2f(FMul(self, v.x), FMul(self, v.y))

\* derived PartialEq of Vector2f: component-wise f32 ==
VecEq(u, v) == FEq(u.x, v.x) /\ FEq(u.y, v.y)

\* ------------------------------------------------------------------------
\* Particle
\* ------------------------------------------------------------------------
Particle_new(pos, vel) == [pos |-> pos, vel |-> vel, acc |-> new]

\* line 100: the magnitude G / distance^3
Magnitude(distance) == FDiv(G_CONST, FMul(FMul(distance, distance), distance))

\* lines 102-107
ForceVector(force, a, b) ==
    IF is_normal(force) THEN mul(force, sub(b.pos, a.pos)) ELSE new

\* compute_force dividing by the square of the distance
compute_forceSquare(a, b) ==
    ForceVector(FDiv(G_CONST, FMul(FMax(length(sub(b.pos, a.pos)), FromInt(1)),
                                   FMax(length(sub(b.pos, a.pos)), FromInt(1)))),
                a, b)

\* compute_force scaling the position of b, not the difference
compute_forceNoSub(a, b) ==
    ForceVector(Magnitude(FMax(length(sub(b.pos, a.pos)), FromInt(1))),
                [pos |-> new], b)

\* compute_force measuring the distance of b from the origin
compute_forceFromOrigin(a, b) ==
    ForceVector(Magnitude(FMax(length(b.pos), FromInt(1))), a, b)

\* line 99, then the rest
compute_force(a, b) ==
    ForceVector(Magnitude(FMax(length(sub(b.pos, a.pos)), FromInt(1))), a, b)

\* ------------------------------------------------------------------------
\* App::update, one sub-iteration phase after the other.  The value threaded
\* through the loops is [ps |-> the particles, calls |-> the pairs <<i, j>>
\* compute_force was evaluated on so far, in order].
\* ------------------------------------------------------------------------

\* lines 151-153
ResetAll(ps) == [k \in DOMAIN ps |-> [ps[k] EXCEPT !.acc = reset(ps[k].acc)]]

\* line 163
SubFrom(st, i, j, acc) ==
    [ps |-> [st.ps EXCEPT ![j].acc = sub(st.ps[j].acc, acc)],
     calls |-> Append(st.calls, <<i, j>>)]

\* line 162, then line 163 on its result
AddTo(st, i, j, acc) ==
    SubFrom([st EXCEPT !.ps[i].acc = add(st.ps[i].acc, acc)], i, j, acc)

\* PairStep adding the force to both particles
PairStepBothAdd(st, i, j) ==
    SubFrom([st EXCEPT !.ps[i].acc = add(st.ps[i].acc, compute_force(st.ps[i], st.ps[j]))],
            i, j, Vector2f(FNeg(compute_force(st.ps[i], st.ps[j]).x),
                           FNeg(compute_force(st.ps[i], st.ps[j]).y)))

\* body of the inner loop, lines 160-163 (i, j are 1-based here)
PairStep(st, i, j) == AddTo(st, i, j, compute_force(st.ps[i], st.ps[j]))

\* for j in 0 .. (i + 1)
RECURSIVE InnerLoop(_, _, _)
InnerLoop(st, i, j) ==
    IF j > i THEN st ELSE InnerLoop(PairStep(st, i, j), i, j + 1)

\* for i in 0 .. count
RECURSIVE OuterLoop(_, _)
OuterLoop(st, i) ==
    IF i > Len(st.ps) THEN st ELSE OuterLoop(InnerLoop(st, i, 1), i + 1)

Accumulate(st) == OuterLoop(st, 1)

\* line 169
comb_dt(dt) ==
    FDiv(FMul(AsF32(dt), SIMULATION_SPEED), FromInt(SIMULATION_ITERATIONS))

\* line 172
MovePos(p, h) == [p EXCEPT !.pos = add(p.pos, mul(h, p.vel))]

\* line 171
MoveVel(p, h) == [p EXCEPT !.vel = add(p.vel, mul(h, p.acc))]

\* explicit Euler: the position moved by the velocity before its update
IntegrateExplicit(p, dt) ==
    [p EXCEPT !.vel = add(p.vel, mul(comb_dt(dt), p.acc)),
              !.pos = add(p.pos, mul(comb_dt(dt), p.vel))]

\* lines 169-172
Integrate(p, dt) == MovePos(MoveVel(p, comb_dt(dt)), comb_dt(dt))

\* lines 174-177
WallXLow(p) ==
    IF FLt(p.pos.x, FZero)
    THEN [p EXCEPT !.pos.x = FZero, !.vel.x = FMul(p.vel.x, FNeg(WALL_BOUNCYNESS))]
    ELSE p

\* lines 178-181
WallXHigh(p) ==
    IF FGt(p.pos.x, FromInt(WIDTH))
    THEN [p EXCEPT !.pos.x = FromInt(WIDTH),
                   !.vel.x = FMul(p.vel.x, FNeg(WALL_BOUNCYNESS))]
    ELSE p

\* lines 182-185
WallYLow(p) ==
    IF FLt(p.pos.y, FZero)
    THEN [p EXCEPT !.pos.y = FZero, !.vel.y = FMul(p.vel.y, FNeg(WALL_BOUNCYNESS))]
    ELSE p

\* lines 186-189
WallYHigh(p) ==
    IF FGt(p.pos.y, FromInt(HEIGHT))
    THEN [p EXCEPT !.pos.y = FromInt(HEIGHT),
                   !.vel.y = FMul(p.vel.y, FNeg(WALL_BOUNCYNESS))]
    ELSE p

\* lines 174-181
WallX(p) == WallXHigh(WallXLow(p))

\* WallY scaling the x component of the velocity
WallYCopied(p) ==
    IF FLt(p.pos.y, FZero)
    THEN [p EXCEPT !.pos.y = FZero, !.vel.x = FMul(p.vel.x, FNeg(WALL_BOUNCYNESS))]
    ELSE IF FGt(p.pos.y, FromInt(HEIGHT))
    THEN [p EXCEPT !.pos.y = FromInt(HEIGHT),
                   !.vel.x = FMul(p.vel.x, FNeg(WALL_BOUNCYNESS))]
    ELSE p

\* lines 182-189
WallY(p) == WallYHigh(WallYLow(p))

Walls(p) == WallY(WallX(p))

\* the third loop, lines 167-190, recording the particles after integration
IntegrateAll(st, dt) ==
    [st EXCEPT !.integ = [k \in DOMAIN st.ps |-> Integrate(st.ps[k], dt)]]

WallsAll(st) ==
    [st EXCEPT !.ps = [k \in DOMAIN st.integ |-> Walls(st.integ[k])]]

\* the first two loops, lines 151-165, recording the particles they leave
Accumulated(st, accd) ==
    [st EXCEPT !.ps = accd.ps, !.calls = accd.calls, !.accd = accd.ps]

\* SubIteration losing the particles that hit a wall
DropHit(st) ==
    [st EXCEPT !.ps = SelectSeq(st.ps, LAMBDA p : \E k \in DOMAIN st.integ :
                                  st.integ[k].id = p.id /\ st.integ[k].pos = p.pos)]

SubIterationDrop(st, dt) ==
    DropHit(WallsAll(IntegrateAll(
      Accumulated([st EXCEPT !.start = st.ps],
                  Accumulate([ps |-> ResetAll(st.ps), calls |-> st.calls])), dt)))

\* One sub-iteration (body of the loop of line 149): the particles at its
\* start, after the accumulation phase, after integration and before the wall
\* checks, and at the end, with the pairs compute_force was evaluated on.
SubIteration(st, dt) ==
    WallsAll(IntegrateAll(
      Accumulated([st EXCEPT !.start = st.ps],
                  Accumulate([ps |-> ResetAll(st.ps), calls |-> st.calls])), dt))

\* for _ in 0 .. SIMULATION_ITERATIONS
RECURSIVE Iterations(_, _, _)
Iterations(st, dt, it) ==
    IF it >= SIMULATION_ITERATIONS THEN st
    ELSE Iterations(SubIteration(st, dt), dt, it + 1)

update(ps, dt) ==
    Iterations([ps |-> ps, calls |-> <<>>, start |-> ps, accd |-> ps, integ |-> ps],
               dt, 0)

\* ------------------------------------------------------------------------
\* State
\* ------------------------------------------------------------------------
VARIABLES
    particles,  \* App.particles; each particle also carries the index it was
                \* created at (id), which the program does not store
    drawn,      \* the centres of the circles of the last frame App.render drew
    updates,    \* number of calls of App::update so far
    last,       \* what the last call of App::update did: its dt, the pairs it
                \* evaluated compute_force on and the particles at the start, after
                \* the accumulation phase and after integration (before the walls)
    pc,         \* position of main: "collect" (building the particles),
                \* "events" (in the event loop), "force" (compute_force alone)
    iter,       \* next value of the range 1 .. PARTICLE_COUNT of line 215
    rng,        \* state of the random number generator of line 210
    fa, fb,     \* two particles handed to compute_force
    fout        \* the forces computed for them, in both orders

vars == <<particles, drawn, updates, last, pc, iter, rng, fa, fb, fout>>

Tagged(p, k) == [pos |-> p.pos, vel |-> p.vel, acc |-> p.acc, id |-> k]

NoUpdate == [op |-> "none", dt |-> FZero, calls |-> <<>>,
             start |-> <<>>, accd |-> <<>>, integ |-> <<>>]

NoParticle == Particle_new(new, new)

\* ------------------------------------------------------------------------
\* The event loop of main (lines 229-245) on an App whose particles are
\* inside the window, as main builds them
\* ------------------------------------------------------------------------
Start(px, py, vx, vy) ==
    Particle_new(Vector2f(FromInt(px), FromInt(py)), Vector2f(FromInt(vx), FromInt(vy)))

\* initial particles: three at rest, two moving into a corner
StartSet == { Start(0, 0, 0, 0), Start(100, 0, 0, 0), Start(2, HEIGHT, 0, 0),
              Start(0, HEIGHT, -5, 5), Start(WIDTH, 0, 5, -5) }

\* UpdateArgs.dt is an f64: 0, 1 and 1/120 (69905 * 2^-23)
DtSet == { [m |-> 0, e |-> 0], [m |-> 1, e |-> 0], [m |-> 69905, e |-> -23] }

Init ==
    /\ \E n \in 1 .. MaxParticles :
         \E ps \in [1 .. n -> StartSet] :
           particles = [k \in 1 .. n |-> Tagged(ps[k], k)]
    /\ drawn = <<>>
    /\ updates = 0
    /\ last = NoUpdate
    /\ pc = "events"
    /\ iter = PARTICLE_COUNT
    /\ rng = 0
    /\ fa = NoParticle
    /\ fb = NoParticle
    /\ fout = <<>>

\* App::render: one circle per particle, centred on its position
render(ps) ==
    [k \in DOMAIN ps |-> <<IntoF64(ps[k].pos.x), IntoF64(ps[k].pos.y)>>]

Render ==
    /\ pc = "events"
    /\ drawn' = render(particles)
    /\ UNCHANGED <<particles, updates, last, pc, iter, rng, fa, fb, fout>>

Update ==
    /\ pc = "events"
    /\ updates < MaxUpdates
    /\ \E dt \in DtSet :
         \E r \in {update(particles, dt)} :
            /\ particles' = r.ps
            /\ last' = [op |-> "update", dt |-> dt, calls |-> r.calls,
                        start |-> r.start, accd |-> r.accd, integ |-> r.integ]
    /\ updates' = updates + 1
    /\ UNCHANGED <<drawn, pc, iter, rng, fa, fb, fout>>

Next == Render \/ Update

Spec == Init /\ [][Next]_vars

\* update is public to its caller and takes any UpdateArgs: besides the
\* frame-sized steps, a dt whose step is a finite f32 (2^127) and a finite
\* f64 beyond the f32 range (2^200), which `as f32` turns into infinity
AnyDtSet == DtSet \cup { [m |-> 1, e |-> 127], [m |-> 1, e |-> 200] }

UpdateAny ==
    /\ pc = "events"
    /\ updates < MaxUpdates
    /\ \E dt \in AnyDtSet :
         \E r \in {update(particles, dt)} :
            /\ particles' = r.ps
            /\ last' = [op |-> "update", dt |-> dt, calls |-> r.calls,
                        start |-> r.start, accd |-> r.accd, integ |-> r.integ]
    /\ updates' = updates + 1
    /\ UNCHANGED <<drawn, pc, iter, rng, fa, fb, fout>>

AnyDtNext == Render \/ UpdateAny

AnyDtSpec == Init /\ [][AnyDtNext]_vars

\* ------------------------------------------------------------------------
\* Construction of the App in main (lines 210-227)
\* ------------------------------------------------------------------------

\* rand::thread_rng(): a generator seeded by the system; its state is a
\* number below 2^RngBits, stepped by a full-period congruence
RngMod == Pow2(RngBits)
RngNext(r) == (5 * r + 3) % RngMod

\* rng.gen::<f32>(): uniform in [0, 1), here the multiples of 2^-RngBits
gen(r) == Round(1, r, -RngBits)

\* the velocity component (g - 0.5) * 2.0 * 5.0 of lines 222-223
Speed(g) == FMul(FMul(FSub(g, Round(1, 1, -1)), FromInt(2)), FromInt(5))

\* the closure of line 215; r is the generator state before its four draws
NewParticle(r) ==
    Particle_new(
      Vector2f(FMul(gen(r), FromInt(WIDTH)),
               FMul(gen(RngNext(r)), FromInt(HEIGHT))),
      Vector2f(Speed(gen(RngNext(RngNext(r)))),
               Speed(gen(RngNext(RngNext(RngNext(r)))))))

MainInit ==
    /\ particles = <<>>
    /\ drawn = <<>>
    /\ updates = 0
    /\ last = NoUpdate
    /\ pc = "collect"
    /\ iter = 1
    /\ rng \in 0 .. RngMod - 1
    /\ fa = NoParticle
    /\ fb = NoParticle
    /\ fout = <<>>

\* one element of (1 .. PARTICLE_COUNT).map(...).collect()
Collect ==
    /\ pc = "collect"
    /\ iter < PARTICLE_COUNT
    /\ particles' = Append(particles, Tagged(NewParticle(rng), Len(particles) + 1))
    /\ rng' = RngNext(RngNext(RngNext(RngNext(rng))))
    /\ iter' = iter + 1
    /\ UNCHANGED <<drawn, updates, last, pc, fa, fb, fout>>

\* the range is exhausted: the App is built and the event loop starts
Built ==
    /\ pc = "collect"
    /\ iter >= PARTICLE_COUNT
    /\ pc' = "events"
    /\ UNCHANGED <<particles, drawn, updates, last, iter, rng, fa, fb, fout>>

MainNext == Collect \/ Built

MainSpec == MainInit /\ [][MainNext]_vars

\* ------------------------------------------------------------------------
\* Particle::compute_force alone, on two particles anywhere in the plane
\* ------------------------------------------------------------------------

\* 0, 1/2, -3, 100, 2^43 (whose cube overflows), 2^127 and -2^127
CoordSet == { FromInt(0), Round(1, 1, -1), FromInt(-3), FromInt(100),
              Round(1, 1, 43), Round(1, 1, 127), Round(-1, 1, 127) }

ForceInit ==
    /\ particles = <<>>
    /\ drawn = <<>>
    /\ updates = 0
    /\ last = NoUpdate
    /\ pc = "force"
    /\ iter = PARTICLE_COUNT
    /\ rng = 0
    /\ \E ax \in CoordSet, ay \in CoordSet :
         fa = Particle_new(Vector2f(ax, ay), new)
    /\ \E bx \in CoordSet, by \in CoordSet :
         fb = Particle_new(Vector2f(bx, by), new)
    /\ fout = <<>>

Force ==
    /\ pc = "force"
    /\ fout = <<>>
    /\ fout' = <<compute_force(fa, fb), compute_force(fb, fa)>>
    /\ UNCHANGED <<particles, drawn, updates, last, pc, iter, rng, fa, fb>>

ForceNext == Force

ForceSpec == ForceInit /\ [][ForceNext]_vars

\* ------------------------------------------------------------------------
\* Properties
\* ------------------------------------------------------------------------
FLe(a, b) == FLt(a, b) \/ FEq(a, b)

Vneg(v) == Vector2f(FNeg(v.x), FNeg(v.y))

InWindow(p) ==
    /\ FLe(FZero, p.pos.x) /\ FLe(p.pos.x, FromInt(WIDTH))
    /\ FLe(FZero, p.pos.y) /\ FLe(p.pos.y, FromInt(HEIGHT))

\* the acceleration of particle i as a loop over all ordered pairs gives it:
\* the forces of the other particles on i, added in index order from zero
RECURSIVE NaiveSum(_, _, _, _)
NaiveSum(ps, i, j, acc) ==
    IF j > Len(ps) THEN acc
    ELSE NaiveSum(ps, i, j + 1,
                  IF j = i THEN acc ELSE add(acc, compute_force(ps[i], ps[j])))

NaiveAcc(ps, i) == NaiveSum(ps, i, 1, new)

Updated == last.op = "update"

\* C1 as stated: after every call of App::update, for any dt, every particle
\* has 0 <= pos.x <= WIDTH and 0 <= pos.y <= HEIGHT; hence in every state
\* reached by one or more calls of update, whatever calls of render are
\* interleaved.
C1_PositionsInWindow ==
    updates >= 1 => \A k \in DOMAIN particles : InWindow(particles[k])

\* C2: no step of the event loop (update or render) adds, removes or
\* reorders a particle: the sequence keeps its length and the particle at
\* each index is the one created at that index.
C2_CountAndOrderFixed ==
    [][/\ Len(particles') = Len(particles)
       /\ \A k \in DOMAIN particles : particles'[k].id = particles[k].id]_vars

\* two updates and a render have run on two or more particles, the last
\* update moving one of them into a wall
C2_Witness ==
    /\ updates >= 2
    /\ drawn # <<>>
    /\ Len(particles) >= 2
    /\ \E k \in DOMAIN particles : last.integ[k].pos # particles[k].pos
    /\ \A k \in DOMAIN particles : particles[k].id = k

\* C3 as stated: in every state reached from construction by calls of
\* update, a call of update with dt = 0 leaves the position and the velocity
\* of every particle the very values they were (a NaN that stays NaN counts
\* as unchanged).
C3_ZeroDtKeepsState ==
    [][(updates' = updates + 1 /\ IsZero(AsF32(last'.dt)))
         => \A k \in DOMAIN particles :
              /\ particles'[k].pos = particles[k].pos
              /\ particles'[k].vel = particles[k].vel]_vars

\* C4: per particle and per axis, a coordinate that integration left below 0
\* ends the step at 0, one left above the bound ends at the bound, and in
\* both cases the velocity component of that axis ends at -WALL_BOUNCYNESS
\* times its value after integration; otherwise both are as integration left
\* them.  Each axis is decided on its own.
AxisResponse(before, vbefore, after, vafter, bound) ==
    IF FLt(before, FZero)
    THEN after = FZero /\ vafter = FMul(FNeg(WALL_BOUNCYNESS), vbefore)
    ELSE IF FGt(before, FromInt(bound))
    THEN after = FromInt(bound) /\ vafter = FMul(FNeg(WALL_BOUNCYNESS), vbefore)
    ELSE after = before /\ vafter = vbefore

C4_BoundaryResponse ==
    Updated =>
      \A k \in DOMAIN particles :
        /\ AxisResponse(last.integ[k].pos.x, last.integ[k].vel.x,
                        particles[k].pos.x, particles[k].vel.x, WIDTH)
        /\ AxisResponse(last.integ[k].pos.y, last.integ[k].vel.y,
                        particles[k].pos.y, particles[k].vel.y, HEIGHT)

\* a corner hit: integration left one particle beyond the right wall and
\* below the top wall, with different speeds on the two axes
C4_Witness ==
    /\ Updated
    /\ \E k \in DOMAIN particles :
         /\ FGt(last.integ[k].pos.x, FromInt(WIDTH))
         /\ FLt(last.integ[k].pos.y, FZero)
         /\ last.integ[k].vel.x # last.integ[k].vel.y

FAbs(a) == IF a.m < 0 THEN FNeg(a) ELSE a

\* one unit in the last place of an f32 between 64 and 128
Ulp100 == Round(1, 1, 7 - SigBits)

Close(a, b) == FLe(FAbs(FSub(a, b)), Ulp100)

\* the scenario of C5: the last update ran with dt = 1 on exactly two
\* particles at rest at (0,0) and (100,0), and no wall was hit
TwoBodyScenario ==
    /\ Updated
    /\ AsF32(last.dt) = FromInt(1)
    /\ Len(last.start) = 2
    /\ last.start[1].pos = Vector2f(FZero, FZero)
    /\ last.start[2].pos = Vector2f(FromInt(100), FZero)
    /\ last.start[1].vel = new
    /\ last.start[2].vel = new
    /\ \A k \in DOMAIN particles : particles[k].pos = last.integ[k].pos

\* both particles moved towards each other along x by d, y unchanged
MovedTogetherBy(d) ==
    /\ FGt(particles[1].pos.x, last.start[1].pos.x)
    /\ FLt(particles[2].pos.x, last.start[2].pos.x)
    /\ Close(FSub(particles[1].pos.x, last.start[1].pos.x), d)
    /\ Close(FSub(last.start[2].pos.x, particles[2].pos.x), d)
    /\ particles[1].pos.y = last.start[1].pos.y
    /\ particles[2].pos.y = last.start[2].pos.y

Cube(a) == FMul(FMul(a, a), a)

\* C5 as stated: in the two-body scenario each particle moves towards the
\* other by 0.5 * (G / 100^3) * 1^2 = 0.0005.
C5_Original ==
    TwoBodyScenario =>
      MovedTogetherBy(FMul(Round(1, 1, -1), FDiv(G_CONST, Cube(FromInt(100)))))

\* C5 amended: in the two-body scenario each particle moves towards the
\* other by (G / 100^2) * 1^2 = 0.1, with y unchanged.
C5_TwoBodyDisplacement ==
    TwoBodyScenario =>
      MovedTogetherBy(FDiv(G_CONST, FMul(FromInt(100), FromInt(100))))

C5_Witness == TwoBodyScenario /\ updates = 1

\* C6: compute_force on two particles at one position (a particle with
\* itself included) is the zero vector, and when all the particles of the
\* simulation share one position the acceleration of each is (0,0) after the
\* accumulation phase.
AllCoincide(ps) ==
    \A i \in DOMAIN ps, j \in DOMAIN ps : VecEq(ps[i].pos, ps[j].pos)

C6_CoincidentZeroForce ==
    Updated =>
      /\ \A i \in DOMAIN last.start, j \in DOMAIN last.start :
           VecEq(last.start[i].pos, last.start[j].pos)
             => compute_force(last.start[i], last.start[j]) = new
      /\ AllCoincide(last.start)
           => \A k \in DOMAIN last.accd : last.accd[k].acc = new

\* two coincident particles away from the origin went through an update
C6_Witness ==
    /\ Updated
    /\ Len(last.start) >= 2
    /\ AllCoincide(last.start)
    /\ ~IsZero(last.start[1].pos.x)

\* C7: compute_force(a, b) is the component-wise negation of
\* compute_force(b, a), for any finite positions.
C7_Antisymmetric ==
    fout # <<>> => VecEq(fout[1], Vneg(fout[2]))

\* a non-zero force between two particles closer than the softening floor
C7_Witness ==
    /\ fout # <<>>
    /\ fout[1] # new
    /\ FLt(length(sub(fb.pos, fa.pos)), FromInt(1))

\* C8: the accumulation loop evaluates compute_force once per unordered
\* pair, self-pairs included, n(n+1)/2 times, and leaves each particle with
\* the acceleration of the loop over all ordered pairs: the sum over j # i
\* of compute_force(particle i, particle j) on the positions at the start.
C8_SymmetricAccumulation ==
    Updated =>
      LET n == Len(last.start)
      IN /\ Len(last.calls) = SIMULATION_ITERATIONS * ((n * (n + 1)) \div 2)
         /\ \A i \in 1 .. n : \A j \in 1 .. i :
              Cardinality({c \in DOMAIN last.calls :
                             last.calls[c] = <<i, j>> \/ last.calls[c] = <<j, i>>}) = 1
         /\ \A i \in 1 .. n : VecEq(last.accd[i].acc, NaiveAcc(last.start, i))

\* an update on as many particles as the model allows, every one attracted
C8_Witness ==
    /\ Updated
    /\ Len(last.start) = MaxParticles
    /\ \A k \in DOMAIN last.accd : last.accd[k].acc # new

\* C9: in a sub-iteration the accelerations are reset and accumulated from
\* the positions of its start, which the accumulation leaves alone, and only
\* then each particle is integrated with h = dt * SIMULATION_SPEED /
\* SIMULATION_ITERATIONS: velocity = old velocity + h * acceleration, then
\* position = old position + h * the new velocity.
StepH == FDiv(FMul(AsF32(last.dt), SIMULATION_SPEED), FromInt(SIMULATION_ITERATIONS))

C9_PhaseOrder ==
    Updated =>
      \A k \in DOMAIN last.start :
        /\ last.accd[k].pos = last.start[k].pos
        /\ last.accd[k].vel = last.start[k].vel
        /\ last.accd[k].acc = NaiveAcc(last.start, k)
        /\ last.integ[k].acc = last.accd[k].acc
        /\ last.integ[k].vel = add(last.start[k].vel, mul(StepH, last.accd[k].acc))
        /\ last.integ[k].pos = add(last.start[k].pos, mul(StepH, last.integ[k].vel))

\* a second update with dt # 0 on a particle that held a stale acceleration
\* and that the step accelerated and moved
C9_Witness ==
    /\ Updated
    /\ updates >= 2
    /\ ~IsZero(AsF32(last.dt))
    /\ \E k \in DOMAIN last.start :
         /\ last.start[k].acc # new
         /\ last.accd[k].acc # last.start[k].acc
         /\ last.integ[k].vel # last.start[k].vel
         /\ last.integ[k].pos # last.start[k].pos
         /\ last.integ[k].pos # add(last.start[k].pos, mul(StepH, last.start[k].vel))

\* C10 as stated: the collection built in main holds PARTICLE_COUNT
\* particles, each with zero acceleration, a position inside the window and
\* velocity components in [-5, 5].
InSpeedRange(v) == FLe(FromInt(-5), v) /\ FLe(v, FromInt(5))

C10_Construction ==
    pc = "events" =>
      /\ Len(particles) = PARTICLE_COUNT
      /\ \A k \in DOMAIN particles :
           /\ particles[k].acc = new
           /\ InWindow(particles[k])
           /\ InSpeedRange(particles[k].vel.x)
           /\ InSpeedRange(particles[k].vel.y)

====
